---- MODULE Spec2Model ----
(***************************************************************************)
(* The adaptive feedback-learning pipeline of the conversational-AI        *)
(* backend: FeedbackService (feedback_service.py), LearningService         *)
(* (learning_service.py), AIService.optimize_model_parameters              *)
(* (ai_service.py) and the scheduled optimisation job (celery_tasks.py).   *)
(*                                                                         *)
(* Tables are modelled by their rows.  A uuid4() is a fresh number.  Every *)
(* `await session.execute(...)` followed by its commit is one atomic step  *)
(* of the store, and the coroutine that issued it may be suspended after   *)
(* it; a statement of the store may also raise.                            *)
(*                                                                         *)
(* Floating-point parameters are held in tenths (temperature 0.7 is 7):    *)
(* the code's max/min clamps are against the literals 0.3, 0.9, 0.7, 1.0.  *)
(*                                                                         *)
(* feedback_service.py uses json and celery_tasks.py uses sqlalchemy's     *)
(* text without importing them; the model takes both names as bound, so    *)
(* that the bodies of the functions are what is checked.                   *)
(***************************************************************************)
EXTENDS Integers, Sequences, FiniteSets, TLC

VARIABLES
    feedback,           \* table feedback: sequence of rows, feedback id = index
    learning_sessions,  \* table learning_sessions: session id -> row
    uuid,               \* number of session ids generated so far
    model_config,       \* AIService.model_config
    system_config,      \* table system_config, key response_temperature
    knowledge_base,     \* table knowledge_base: sequence of rows
    needs_review,       \* messages whose metadata carries the needs_review flag
    req,                \* the feedback requests in flight (API handler + its background task)
    tasks,              \* asyncio tasks created by create_task and not yet started
    run,                \* the invocations of run_learning_session in flight
    job,                \* the scheduled optimize_model_parameters job
    submitted,          \* number of feedback submissions so far
    invoked,            \* number of direct invocations of run_learning_session so far
    jobs_run,           \* number of runs of the scheduled job so far
    faults,             \* number of statements of the store that raised so far
    batch,              \* the runs of the scheduled analyze_feedback_batch task in flight
    performance_metrics,\* table performance_metrics: the values of feedback_analysis_processed
    batch_runs,         \* number of runs of analyze_feedback_batch started so far
    chat,               \* the chat completion requests in flight
    agent,              \* the Manus agent of each application: memory and current_step
    agent_lock,         \* the asyncio.Lock of each application: its holder, or Free
    daily,              \* the daily averages of response_time metrics and of feedback ratings
    insights,           \* the insights of the latest comprehensive analysis, << >> before it
    system_alerts,      \* table performance_metrics: the system_alert rows
    trend_job,          \* the run of analyze_performance_trends in flight
    trend_runs,         \* number of runs of analyze_performance_trends so far
    reads,              \* number of calls of get_knowledge_item so far
    sweeps              \* number of calls of cleanup_old_knowledge so far

vars == << feedback, learning_sessions, uuid, model_config, system_config,
           knowledge_base, needs_review, req, tasks, run, job,
           submitted, invoked, jobs_run, faults,
           batch, performance_metrics, batch_runs,
           chat, agent, agent_lock,
           daily, insights, system_alerts, trend_job, trend_runs,
           reads, sweeps >>

\* the state that only the chat completion requests write
chat_vars == << chat, agent, agent_lock >>

\* the state that only the analyses of trends read and write
analysis_vars == << daily, insights, system_alerts, trend_job, trend_runs,
                   reads, sweeps >>

\* the state that only the batch analysis of feedback writes
batch_vars == << batch, performance_metrics, batch_runs >>

----------------------------------------------------------------------------
(* Bounds of the model *)

MaxSubmit == 2
MaxInvoke == 1
MaxJobs == 2
MaxFaults == 1
PreRows == 7
MaxBatchRuns == 2
\* updates one agent.run yields at most
MaxSteps == 2
\* days with data in the window of an analysis, at most
MaxDays == 4
\* runs of analyze_performance_trends
MaxTrendRuns == 1
\* rows of knowledge_base, and calls of get_knowledge_item and of the sweep
MaxItems == 3
MaxReads == 2
MaxSweeps == 2

(* Program constants *)

feedback_threshold == 3
MinFeedbackForTuning == 10
NegativePatternMin == 5
DefaultTemperature == 7
DefaultTopP == 9
DefaultFrequencyPenalty == 0
TemperatureMin == 3
TemperatureMax == 9
TopPMin == 7
FrequencyPenaltyMax == 10
Step == 1
JobBaseTemperature == 7
NegativeRateThreshold == 30
InsightSlowResponse == 30
InsightFastResponse == 10
InsightHighRating == 40
InsightLowRating == 30
InsightLowConfidence == 7
AlertLowRating == 30
AlertSlowResponse == 50
SweepMinUsage == 5
SweepMaxConfidence == 5

NULL == "NULL"

LessSlot(a, b) == << a, b >> \in { << "r1", "r2" >>, << "w1", "w2" >>, << "b1", "b2" >>,
                               << "c1", "c2" >> }

Requests == {"r1", "r2"}
Workers == {"w1", "w2"}
Batches == {"b1", "b2"}

\* the message the feedback requests of the model are about, an id that is in no
\* row of messages, and the ids of the other messages that already have feedback
m1 == << "message", 1 >>
MissingMessage == << "missing", 0 >>
\* the message of a session whose input_data names none
NoMessage == << "none", 0 >>
OtherMessage(i) == << "other", (i + 1) \div 2 >>

\* the rows of table messages: id -> [length of content, content holds one of the
\* technical terms of _identify_knowledge_gap]
messages ==
    [m \in {m1} \cup { OtherMessage(i) : i \in 1..PreRows } |->
        IF m = m1 THEN [content_len |-> 150, technical_term |-> TRUE]
                  ELSE [content_len |-> 50, technical_term |-> FALSE]]

\* the comments a user may send: NULL, or a text
CommentLen(c) == CASE c = NULL -> 0
                   [] c = "great_answer_long" -> 30
                   [] c = "errado" -> 6
                   [] c = "ok" -> 2
                   [] c = "detailed_praise" -> 60
                   [] c = "muito longo" -> 11
                   [] c = "complexo" -> 8
                   [] c = "vago" -> 4

\* the (rating, comment) a feedback request may carry
FeedbackInputs == { <<5, "great_answer_long">>, <<3, NULL>>, <<2, "errado">> }

\* the feedback a request may carry: those, or a good rating with a short comment
SubmitInputs == FeedbackInputs \cup { <<4, "ok">> }

\* the messages a feedback request may name: m1, a short one, one that is not stored
SubmitMessages == { m1, OtherMessage(1), MissingMessage }

\* age of a feedback row: within 24 hours, within 7 days, older
Ages == {"day", "week", "old"}
PreRatings == {2, 4}

SessionTypes == {"model_optimization", "knowledge_expansion",
                 "comprehensive_analysis", "feedback_analysis"}

FeedbackRow(m, r, c, a) ==
    [message_id |-> m, rating |-> r, comment |-> c, age |-> a, processed |-> FALSE]

\* feedback the program has stored before the model starts: PreRows rows about
\* other messages, at most two rows a message, so that no trigger has fired
PreTable(r, a) == [i \in 1..PreRows |-> FeedbackRow(OtherMessage(i), r, NULL, a)]

\* n rows about m1
M1Rows(n, r, c) == [i \in 1..n |-> FeedbackRow(m1, r, c, "day")]

\* output_data of a session: SQL NULL, or the JSON of the handler's result
NullOutput == [null |-> TRUE, error |-> NULL, optimizations_applied |-> {}]
Result(err, applied) == [null |-> FALSE, error |-> err, optimizations_applied |-> applied]

\* started_at is CURRENT_TIMESTAMP by default ("day": today; "stale": more than
\* 90 days ago)
SessionRow(type, status, m, out, err) ==
    [session_type |-> type, status |-> status, message_id |-> m,
     output_data |-> out, error_message |-> err, started_at |-> "day"]

\* a row of knowledge_base; content stands for what a search can match, created_at
\* and last_used_at for how long ago ("day": today, "stale": beyond the retention
\* threshold)
KnowledgeItem(cat, src, conf, content, usage, used, created) ==
    [category |-> cat, source |-> src, confidence_score |-> conf, content |-> content,
     usage_count |-> usage, last_used_at |-> used, created_at |-> created]

\* the row add_knowledge_item inserts: usage_count 0, last_used_at null, created now
KnowledgeRow(cat, src, conf) ==
    KnowledgeItem(cat, src, conf, "other", 0, NULL, "day")

IdleReq == [pc |-> "idle", message_id |-> NoMessage, rating |-> 0, comment |-> NULL,
            feedback_id |-> 0, count |-> 0, review_pending |-> FALSE]
\* a slot of run_learning_session; error: the exception in flight and, in an idle
\* slot, the exception the last invocation raised to its caller (NULL: it returned)
IdleRun == [pc |-> "idle", session_id |-> 0, session_type |-> NULL,
            avg_num |-> 0, total_feedback |-> 0, negative_feedback |-> 0,
            result |-> NullOutput, error |-> NULL]
IdleJob == [pc |-> "idle", avg_num |-> 0, feedback_count |-> 0, adjusted |-> FALSE]

\* a run of _analyze_feedback_batch_async: the ids it selected (feedback_ids_to_mark)
\* and the selected rows it has still to derive a knowledge item from
IdleBatch == [pc |-> "idle", ids |-> {}, todo |-> << >>]

\* the batch analysis before its first run
InitBatchVars ==
    /\ batch = [b \in Batches |-> IdleBatch]
    /\ performance_metrics = << >>
    /\ batch_runs = 0

\* analyze_performance_trends between runs; a run holds the two lists it was given
IdleTrend == [pc |-> "idle", user_satisfaction |-> << >>, response_time |-> << >>]

\* the analyses before their first run, over a store without metrics
InitAnalysisVars ==
    /\ daily = [response_time |-> << >>, user_satisfaction |-> << >>]
    /\ insights = << >>
    /\ system_alerts = << >>
    /\ trend_job = IdleTrend
    /\ trend_runs = 0
    /\ reads = 0
    /\ sweeps = 0

\* the two applications that serve POST /v1/chat/completions, each with an agent
\* and a lock of its own: backend/main.py through AIService, and api/main.py with
\* its module-level agent_instance and agent_lock
Apps == {"backend", "api"}
Chats == {"c1", "c2"}
Free == "free"

\* a request slot with no request; steps counts the updates agent.run has yielded
IdleChat == [pc |-> "idle", app |-> "backend", stream |-> FALSE, steps |-> 0]

\* Manus() as the startup leaves it: no messages; memory is the set of requests
\* whose messages the agent holds
NewAgent == [memory |-> {}, current_step |-> 0]

\* the chat requests before the first one: agents created, locks free
InitChatVars ==
    /\ chat = [c \in Chats |-> IdleChat]
    /\ agent = [a \in Apps |-> NewAgent]
    /\ agent_lock = [a \in Apps |-> Free]

\* the state after construction, but for the tables
InitRest ==
    /\ model_config = [temperature |-> DefaultTemperature, top_p |-> DefaultTopP,
                       frequency_penalty |-> DefaultFrequencyPenalty]
    /\ system_config = [response_temperature |-> DefaultTemperature]
    /\ needs_review = {}
    /\ req = [r \in Requests |-> IdleReq]
    /\ tasks = {}
    /\ run = [w \in Workers |-> IdleRun]
    /\ job = IdleJob
    /\ submitted = 0
    /\ invoked = 0
    /\ jobs_run = 0
    /\ faults = 0
    /\ InitBatchVars
    /\ InitChatVars
    /\ InitAnalysisVars

Init ==
    /\ feedback = << >>
    /\ learning_sessions = << >>
    /\ uuid = 0
    /\ knowledge_base = << >>
    /\ InitRest

\* r is the first idle slot: which of the idle slots takes a new request or a
\* new coroutine makes no difference
FirstIdle(slots, names, r) ==
    \A q \in names : slots[q].pc = "idle" => ~ LessSlot(q, r)

\* a statement of the store either succeeds or raises
Store(ok) ==
    /\ ok \/ faults < MaxFaults
    /\ faults' = IF ok THEN faults ELSE faults + 1

----------------------------------------------------------------------------
(* FeedbackService *)

\* SELECT COUNT(*) FROM feedback WHERE message_id = :message_id
FeedbackCount(m) == Cardinality({ i \in DOMAIN feedback : feedback[i].message_id = m })

\* INSERT INTO learning_sessions (id, session_type, status, input_data): the other
\* columns take their defaults
InsertSession(sid, type, m) ==
    learning_sessions @@ (sid :> SessionRow(type, "pending", m, NullOutput, NULL))

\* a save_feedback that inserts without looking the message up
save_feedback_NoLookup(r, m, rating, comment, ok) ==
    /\ Store(ok)
    /\ req[r].pc = "idle"
    /\ FirstIdle(req, Requests, r)
    /\ submitted < MaxSubmit
    /\ submitted' = submitted + 1
    /\ IF ok
       THEN /\ feedback' = Append(feedback, FeedbackRow(m, rating, comment, "day"))
            /\ req' = [req EXCEPT ![r] = [pc |-> "check_trigger", message_id |-> m,
                                          rating |-> rating, comment |-> comment,
                                          feedback_id |-> Len(feedback) + 1,
                                          count |-> 0, review_pending |-> FALSE]]
       ELSE UNCHANGED << feedback, req >>
    /\ UNCHANGED << learning_sessions, uuid, model_config, system_config,
                    knowledge_base, needs_review, tasks, run, job, invoked, jobs_run >>
    /\ UNCHANGED << batch_vars, chat_vars, analysis_vars >>

\* save_feedback up to its commit; ok = FALSE: a statement of the store raises, the
\* transaction is rolled back and the error is raised to the caller
save_feedback(r, m, rating, comment, ok) ==
    /\ Store(ok)
    /\ req[r].pc = "idle"
    /\ FirstIdle(req, Requests, r)
    /\ submitted < MaxSubmit
    /\ submitted' = submitted + 1
    /\ IF m \in DOMAIN messages /\ ok
       THEN /\ feedback' = Append(feedback, FeedbackRow(m, rating, comment, "day"))
            /\ req' = [req EXCEPT ![r] = [pc |-> "check_trigger", message_id |-> m,
                                          rating |-> rating, comment |-> comment,
                                          feedback_id |-> Len(feedback) + 1,
                                          count |-> 0, review_pending |-> FALSE]]
       ELSE UNCHANGED << feedback, req >>
    /\ UNCHANGED << learning_sessions, uuid, model_config, system_config,
                    knowledge_base, needs_review, tasks, run, job, invoked, jobs_run >>
    /\ UNCHANGED << batch_vars, chat_vars, analysis_vars >>

\* a _check_learning_trigger that asks for a session at any count
check_learning_trigger_AnyCount(r, ok) ==
    /\ Store(ok)
    /\ req[r].pc = "check_trigger"
    /\ LET n == FeedbackCount(req[r].message_id) IN
       req' = [req EXCEPT ![r].count = n,
                          ![r].pc = IF ok THEN "trigger_session" ELSE "background"]
    /\ UNCHANGED << feedback, learning_sessions, uuid, model_config, system_config,
                    knowledge_base, needs_review, tasks, run, job,
                    submitted, invoked, jobs_run >>
    /\ UNCHANGED << batch_vars, chat_vars, analysis_vars >>

\* _check_learning_trigger: the count; an error is logged and swallowed
check_learning_trigger(r, ok) ==
    /\ Store(ok)
    /\ req[r].pc = "check_trigger"
    /\ LET n == FeedbackCount(req[r].message_id) IN
       req' = [req EXCEPT ![r].count = n,
                          ![r].pc = IF ok /\ n >= feedback_threshold
                                    THEN "trigger_session" ELSE "background"]
    /\ UNCHANGED << feedback, learning_sessions, uuid, model_config, system_config,
                    knowledge_base, needs_review, tasks, run, job,
                    submitted, invoked, jobs_run >>
    /\ UNCHANGED << batch_vars, chat_vars, analysis_vars >>

\* a _trigger_learning_session whose error reaches save_feedback: the request
\* fails and the feedback row is taken back
trigger_learning_session_Raising(r, ok) ==
    /\ Store(ok)
    /\ req[r].pc = "trigger_session"
    /\ uuid' = uuid + 1
    /\ learning_sessions' = IF ok
                            THEN InsertSession(uuid + 1, "feedback_analysis", req[r].message_id)
                            ELSE learning_sessions
    /\ req' = [req EXCEPT ![r] = IF ok THEN [@ EXCEPT !.pc = "background"] ELSE IdleReq]
    /\ feedback' = IF ok THEN feedback
                   ELSE [i \in DOMAIN feedback \ {req[r].feedback_id} |-> feedback[i]]
    /\ UNCHANGED << model_config, system_config, knowledge_base,
                    needs_review, tasks, run, job, submitted, invoked, jobs_run >>
    /\ UNCHANGED << batch_vars, chat_vars, analysis_vars >>

\* _trigger_learning_session: a new pending feedback_analysis session; nothing
\* is sent to a task queue
trigger_learning_session(r, ok) ==
    /\ Store(ok)
    /\ req[r].pc = "trigger_session"
    /\ uuid' = uuid + 1
    /\ learning_sessions' = IF ok
                            THEN InsertSession(uuid + 1, "feedback_analysis", req[r].message_id)
                            ELSE learning_sessions
    /\ req' = [req EXCEPT ![r].pc = "background"]
    /\ UNCHANGED << feedback, model_config, system_config, knowledge_base,
                    needs_review, tasks, run, job, submitted, invoked, jobs_run >>
    /\ UNCHANGED << batch_vars, chat_vars, analysis_vars >>

----------------------------------------------------------------------------
(* AIService *)

Max(a, b) == IF a >= b THEN a ELSE b
Min(a, b) == IF a <= b THEN a ELSE b

\* avg_rating < 3.0 and avg_rating > 4.0, for the average sum / n of n > 0 ratings
AvgBelow3(sum, n) == sum < 3 * n
AvgAbove4(sum, n) == sum > 4 * n

\* a tuner whose frequency_penalty has no upper clamp
optimize_model_parameters_Unclamped(cfg, sum, n, negative_feedback_rate) ==
    LET temperature ==
            IF AvgBelow3(sum, n) /\ n >= MinFeedbackForTuning
            THEN Max(TemperatureMin, cfg.temperature - Step)
            ELSE IF AvgAbove4(sum, n) /\ n >= MinFeedbackForTuning
            THEN Min(TemperatureMax, cfg.temperature + Step)
            ELSE cfg.temperature
    IN  [temperature |-> temperature,
         top_p |-> IF negative_feedback_rate > NegativeRateThreshold
                   THEN Max(TopPMin, cfg.top_p - Step) ELSE cfg.top_p,
         frequency_penalty |-> IF negative_feedback_rate > NegativeRateThreshold
                               THEN cfg.frequency_penalty + Step
                               ELSE cfg.frequency_penalty]

\* AIService.optimize_model_parameters: the configuration it leaves, given the
\* configuration it finds and the feedback analysis it is handed
optimize_model_parameters(cfg, sum, n, negative_feedback_rate) ==
    LET temperature ==
            IF AvgBelow3(sum, n) /\ n >= MinFeedbackForTuning
            THEN Max(TemperatureMin, cfg.temperature - Step)
            ELSE IF AvgAbove4(sum, n) /\ n >= MinFeedbackForTuning
            THEN Min(TemperatureMax, cfg.temperature + Step)
            ELSE cfg.temperature
    IN  [temperature |-> temperature,
         top_p |-> IF negative_feedback_rate > NegativeRateThreshold
                   THEN Max(TopPMin, cfg.top_p - Step) ELSE cfg.top_p,
         frequency_penalty |-> IF negative_feedback_rate > NegativeRateThreshold
                               THEN Min(FrequencyPenaltyMax, cfg.frequency_penalty + Step)
                               ELSE cfg.frequency_penalty]

\* a call of AIService.optimize_model_parameters with the feedback analysis
\* (average sum / n of n ratings, negative_feedback_rate in hundredths) of its caller
tune(sum, n, negative_feedback_rate) ==
    /\ model_config' = optimize_model_parameters(model_config, sum, n, negative_feedback_rate)
    /\ UNCHANGED << feedback, learning_sessions, uuid, system_config, knowledge_base,
                    needs_review, req, tasks, run, job, submitted, invoked, jobs_run,
                    faults >>
    /\ UNCHANGED << batch_vars, chat_vars, analysis_vars >>

----------------------------------------------------------------------------
(* LearningService: processing of one feedback *)

\* a _process_positive_feedback that takes the comment only when it took no content
PositiveItems_EitherOr(content_len, comment) ==
    IF content_len > 100
    THEN << KnowledgeRow("respostas_positivas", "feedback_positivo", 9) >>
    ELSE IF comment # NULL /\ CommentLen(comment) > 20
    THEN << KnowledgeRow("insights_usuarios", "comentario_positivo", 8) >>
    ELSE << >>

\* _process_positive_feedback: the knowledge items it adds
PositiveItems(content_len, comment) ==
    (IF content_len > 100
     THEN << KnowledgeRow("respostas_positivas", "feedback_positivo", 9) >> ELSE << >>)
    \o
    (IF comment # NULL /\ CommentLen(comment) > 20
     THEN << KnowledgeRow("insights_usuarios", "comentario_positivo", 8) >> ELSE << >>)

\* _process_negative_feedback: the improvement areas found in the comment
ImprovementAreas(comment) ==
    IF comment = "errado" THEN {"accuracy"} ELSE {}

\* what a call of process_feedback_for_learning may meet: no error; the SELECT of
\* the feedback raises; the first, or the second, statement of the extraction raises
Outcomes == {"ok", "lookup_fails", "extract_fails", "insight_fails"}

\* the number of statements of the store _process_positive_feedback /
\* _process_negative_feedback issues for a feedback.  MetricsService has no
\* record_system_metric, so a negative feedback with an improvement area raises
\* AttributeError before the messages update.
ExtractionStatements(rating, content_len, comment) ==
    IF rating >= 4 THEN Len(PositiveItems(content_len, comment))
    ELSE IF rating <= 2 /\ ImprovementAreas(comment) = {} THEN 1
    ELSE 0

\* process_feedback_for_learning up to the trigger check.  outcome "lookup_fails":
\* the whole call is abandoned; "extract_fails" / "insight_fails": add_knowledge_item
\* (or the messages update) raises, the items inserted before it are committed,
\* and _process_positive_feedback / _process_negative_feedback swallow the error.
\* The messages update is not committed here: it waits for the commit of
\* _check_model_optimization_trigger.
process_feedback_for_learning(r, outcome) ==
    /\ Store(outcome = "ok")
    /\ req[r].pc = "background"
    /\ LET rating == req[r].rating
           items == PositiveItems(messages[req[r].message_id].content_len, req[r].comment)
           n == ExtractionStatements(rating, messages[req[r].message_id].content_len,
                                     req[r].comment)
       IN  /\ outcome = "extract_fails" => n >= 1
           /\ outcome = "insight_fails" => n >= 2
           /\ IF outcome = "lookup_fails"
              THEN /\ req' = [req EXCEPT ![r] = IdleReq]
                   /\ UNCHANGED knowledge_base
              ELSE /\ req' = [req EXCEPT
                        ![r].pc = "optimization_trigger",
                        ![r].review_pending =
                            /\ rating < 4 /\ rating <= 2 /\ outcome = "ok"
                            /\ ImprovementAreas(req[r].comment) = {}]
                   /\ knowledge_base' =
                        IF rating >= 4
                        THEN knowledge_base \o
                             (CASE outcome = "ok" -> items
                                [] outcome = "extract_fails" -> << >>
                                [] outcome = "insight_fails" -> SubSeq(items, 1, 1))
                        ELSE knowledge_base
    /\ UNCHANGED << feedback, learning_sessions, uuid, model_config, system_config,
                    needs_review, tasks, run, job, submitted, invoked, jobs_run >>
    /\ UNCHANGED << batch_vars, chat_vars, analysis_vars >>

\* _check_model_optimization_trigger: the count
check_model_optimization_trigger(r, ok) ==
    /\ Store(ok)
    /\ req[r].pc = "optimization_trigger"
    /\ LET n == FeedbackCount(req[r].message_id) IN
       req' = IF ok /\ n >= feedback_threshold
              THEN [req EXCEPT ![r].count = n, ![r].pc = "create_session"]
              ELSE [req EXCEPT ![r] = IdleReq]
    /\ UNCHANGED << feedback, learning_sessions, uuid, model_config, system_config,
                    knowledge_base, needs_review, tasks, run, job,
                    submitted, invoked, jobs_run >>
    /\ UNCHANGED << batch_vars, chat_vars, analysis_vars >>

\* _check_model_optimization_trigger: the insert of the pending session, its
\* commit and create_task(run_learning_session(session_id, "model_optimization"))
create_optimization_session(r, ok) ==
    /\ Store(ok)
    /\ req[r].pc = "create_session"
    /\ uuid' = uuid + 1
    /\ IF ok
       THEN /\ learning_sessions' =
                 InsertSession(uuid + 1, "model_optimization", req[r].message_id)
            /\ tasks' = tasks \cup {uuid + 1}
            /\ needs_review' = IF req[r].review_pending
                               THEN needs_review \cup {req[r].message_id}
                               ELSE needs_review
       ELSE UNCHANGED << learning_sessions, tasks, needs_review >>
    /\ req' = [req EXCEPT ![r] = IdleReq]
    /\ UNCHANGED << feedback, model_config, system_config, knowledge_base,
                    run, job, submitted, invoked, jobs_run >>
    /\ UNCHANGED << batch_vars, chat_vars, analysis_vars >>

----------------------------------------------------------------------------
(* LearningService.run_learning_session *)

BeginRun(sid, type) ==
    [IdleRun EXCEPT !.pc = "begin", !.session_id = sid, !.session_type = type]

\* the task created by _check_model_optimization_trigger starts
start_task(w) ==
    /\ UNCHANGED faults
    /\ run[w].pc = "idle"
    /\ FirstIdle(run, Workers, w)
    /\ \E sid \in tasks :
         /\ tasks' = tasks \ {sid}
         /\ run' = [run EXCEPT ![w] = BeginRun(sid, "model_optimization")]
    /\ UNCHANGED << feedback, learning_sessions, uuid, model_config, system_config,
                    knowledge_base, needs_review, req, job, submitted, invoked, jobs_run >>
    /\ UNCHANGED << batch_vars, chat_vars, analysis_vars >>

\* POST /api/admin/trigger-learning: a new uuid, no row inserted, and the
\* background task trigger_learning_background runs run_learning_session with it
trigger_learning_background(w, type) ==
    /\ UNCHANGED faults
    /\ run[w].pc = "idle"
    /\ FirstIdle(run, Workers, w)
    /\ invoked < MaxInvoke
    /\ invoked' = invoked + 1
    /\ uuid' = uuid + 1
    /\ run' = [run EXCEPT ![w] = BeginRun(uuid + 1, type)]
    /\ UNCHANGED << feedback, learning_sessions, model_config, system_config,
                    knowledge_base, needs_review, req, tasks, job, submitted, jobs_run >>
    /\ UNCHANGED << batch_vars, chat_vars, analysis_vars >>

\* run_learning_session called with the id of a stored session: the method takes
\* any id and type from its caller
run_learning_session(w, sid, type) ==
    /\ UNCHANGED faults
    /\ run[w].pc = "idle"
    /\ FirstIdle(run, Workers, w)
    /\ invoked < MaxInvoke
    /\ sid \in DOMAIN learning_sessions
    /\ invoked' = invoked + 1
    /\ run' = [run EXCEPT ![w] = BeginRun(sid, type)]
    /\ UNCHANGED << feedback, learning_sessions, uuid, model_config, system_config,
                    knowledge_base, needs_review, req, tasks, job, submitted, jobs_run >>
    /\ UNCHANGED << batch_vars, chat_vars, analysis_vars >>

\* the first UPDATE (status = 'running') and its commit; an error goes to the
\* except clause of run_learning_session
mark_running(w, ok) ==
    /\ Store(ok)
    /\ run[w].pc = "begin"
    /\ IF ok
       THEN /\ learning_sessions' =
                 IF run[w].session_id \in DOMAIN learning_sessions
                 THEN [learning_sessions EXCEPT ![run[w].session_id].status = "running",
                                                ![run[w].session_id].started_at = "day"]
                 ELSE learning_sessions
            /\ run' = [run EXCEPT ![w].pc = "handler"]
       ELSE /\ run' = [run EXCEPT ![w].pc = "except", ![w].error = "store_error"]
            /\ UNCHANGED learning_sessions
    /\ UNCHANGED << feedback, uuid, model_config, system_config, knowledge_base,
                    needs_review, req, tasks, job, submitted, invoked, jobs_run >>
    /\ UNCHANGED << batch_vars, chat_vars, analysis_vars >>

\* the feedback rows of the last 7 days, and of the last 24 hours
Recent7 == { i \in DOMAIN feedback : feedback[i].age \in {"day", "week"} }
Recent1 == { i \in DOMAIN feedback : feedback[i].age = "day" }

RECURSIVE SumRatings(_)
SumRatings(S) ==
    IF S = {} THEN 0
    ELSE LET i == CHOOSE x \in S : TRUE IN feedback[i].rating + SumRatings(S \ {i})

Negative(S) == { i \in S : feedback[i].rating <= 2 }
Positive(S) == { i \in S : feedback[i].rating >= 4 }

\* _run_model_optimization, the statistics query; an error of the store is caught
\* by the handler and becomes its result
run_model_optimization_stats(w, ok) ==
    /\ Store(ok)
    /\ run[w].pc = "handler"
    /\ run[w].session_type = "model_optimization"
    /\ run' = IF ok
              THEN [run EXCEPT ![w].pc = "optimize",
                               ![w].avg_num = SumRatings(Recent7),
                               ![w].total_feedback = Cardinality(Recent7),
                               ![w].negative_feedback = Cardinality(Negative(Recent7))]
              ELSE [run EXCEPT ![w].pc = "finish",
                               ![w].result = Result("store_error", {})]
    /\ UNCHANGED << feedback, learning_sessions, uuid, model_config, system_config,
                    knowledge_base, needs_review, req, tasks, job,
                    submitted, invoked, jobs_run >>
    /\ UNCHANGED << batch_vars, chat_vars, analysis_vars >>

\* _analyze_negative_patterns over the comments of the negative rows of 7 days
\* (a comment of the model is one of the words the code looks for, or has none)
PatternWords ==
    [response_length      |-> {"muito longo", "extenso", "prolixo"},
     technical_complexity |-> {"tecnico", "complexo", "dificil"},
     technical_accuracy   |-> {"impreciso", "errado", "incorreto"},
     response_depth       |-> {"vago", "generico", "superficial"}]

NegativePatterns ==
    LET comments == { feedback[i].comment : i \in { j \in Negative(Recent7) :
                                                    feedback[j].comment # NULL } }
    IN  { p \in DOMAIN PatternWords : PatternWords[p] \cap comments # {} }

\* the tags _run_model_optimization appends for the patterns it finds
PatternTags(patterns) ==
    (IF "response_length" \in patterns THEN {"response_length_adjustment"} ELSE {})
    \cup
    (IF "technical_accuracy" \in patterns THEN {"technical_accuracy_improvement"} ELSE {})

\* a _run_model_optimization that tunes on the average alone
TuningMode_NoCountGuard(sum, n) ==
    IF AvgBelow3(sum, n) /\ n > 0 THEN "conservative"
    ELSE IF AvgAbove4(sum, n) THEN "creative"
    ELSE "none"

\* the mode _run_model_optimization tunes in, from the statistics it read
TuningMode(sum, n) ==
    IF AvgBelow3(sum, n) /\ n >= MinFeedbackForTuning THEN "conservative"
    ELSE IF AvgAbove4(sum, n) /\ n >= MinFeedbackForTuning THEN "creative"
    ELSE "none"

TuningTags(mode) ==
    CASE mode = "conservative" -> {"conservative_tuning"}
      [] mode = "creative" -> {"creative_tuning"}
      [] OTHER -> {}

\* _run_model_optimization after the statistics: with no row AVG is NULL and the
\* comparison None < 3.0 raises TypeError; otherwise the tuner is called in the
\* mode found and, with more than 5 negative rows, the comments are read
\* (ok = FALSE: that query raises).  Every error becomes {"error": ...}.
run_model_optimization(w, ok) ==
    /\ Store(ok)
    /\ run[w].pc = "optimize"
    /\ ~ok => run[w].total_feedback > 0 /\ run[w].negative_feedback > NegativePatternMin
    /\ LET sum == run[w].avg_num
           n == run[w].total_feedback
           mode == TuningMode(sum, n)
       IN  IF n = 0
           THEN /\ run' = [run EXCEPT ![w].pc = "finish",
                                      ![w].result = Result("TypeError", {})]
                /\ UNCHANGED model_config
           ELSE /\ model_config' =
                     IF mode = "none" THEN model_config
                     ELSE optimize_model_parameters(model_config, sum, n, 0)
                /\ run' = [run EXCEPT
                     ![w].pc = "finish",
                     ![w].result =
                         IF run[w].negative_feedback > NegativePatternMin
                         THEN IF ok
                              THEN Result(NULL, TuningTags(mode) \cup PatternTags(NegativePatterns))
                              ELSE Result("store_error", {})
                         ELSE Result(NULL, TuningTags(mode))]
    /\ UNCHANGED << feedback, learning_sessions, uuid, system_config,
                    knowledge_base, needs_review, req, tasks, job,
                    submitted, invoked, jobs_run >>
    /\ UNCHANGED << batch_vars, chat_vars, analysis_vars >>

\* the messages _run_knowledge_expansion finds: at least 2 feedback rows with an
\* average rating of at most 2.5
ProblematicResponses ==
    { m \in DOMAIN messages :
        LET rows == { i \in DOMAIN feedback : feedback[i].message_id = m }
        IN  Cardinality(rows) >= 2 /\ 2 * SumRatings(rows) <= 5 * Cardinality(rows) }

RECURSIVE GapItems(_)
GapItems(S) ==
    IF S = {} THEN << >>
    ELSE LET m == CHOOSE x \in S : TRUE
         IN  (IF messages[m].technical_term
              THEN << KnowledgeRow("lacunas_identificadas", "learning_session", 6) >>
              ELSE << >>) \o GapItems(S \ {m})

\* _run_knowledge_expansion
run_knowledge_expansion(w, ok) ==
    /\ Store(ok)
    /\ run[w].pc = "handler"
    /\ run[w].session_type = "knowledge_expansion"
    /\ IF ok
       THEN /\ knowledge_base' = knowledge_base \o GapItems(ProblematicResponses)
            /\ run' = [run EXCEPT ![w].pc = "finish", ![w].result = Result(NULL, {})]
       ELSE /\ run' = [run EXCEPT ![w].pc = "finish",
                                  ![w].result = Result("store_error", {})]
            /\ UNCHANGED knowledge_base
    /\ UNCHANGED << feedback, learning_sessions, uuid, model_config, system_config,
                    needs_review, req, tasks, job, submitted, invoked, jobs_run >>
    /\ UNCHANGED << batch_vars, chat_vars, analysis_vars >>

RECURSIVE Total(_)
Total(seq) == IF seq = << >> THEN 0 ELSE Head(seq) + Total(Tail(seq))

RECURSIVE Reverse(_)
Reverse(seq) == IF seq = << >> THEN << >> ELSE Append(Reverse(Tail(seq)), Head(seq))

\* seq[-3:]
LastThree(seq) == SubSeq(seq, Max(1, Len(seq) - 2), Len(seq))

\* the series as the queries of _run_comprehensive_analysis return them:
\* ORDER BY date DESC, the most recent day first
performance_trend == Reverse(daily.response_time)
satisfaction_trend == Reverse(daily.user_satisfaction)

\* the categories of the items used in the last 30 days, and those with the most
\* items: popular_topics[0] is one of them
PopularCategories ==
    { knowledge_base[k].category :
        k \in { i \in DOMAIN knowledge_base : knowledge_base[i].last_used_at = "day" } }
TopicItems(cat) ==
    { k \in DOMAIN knowledge_base :
        knowledge_base[k].category = cat /\ knowledge_base[k].last_used_at = "day" }
TopTopics ==
    { cat \in PopularCategories :
        \A other \in PopularCategories :
            Cardinality(TopicItems(other)) <= Cardinality(TopicItems(cat)) }
RECURSIVE SumConfidence(_)
SumConfidence(S) ==
    IF S = {} THEN 0
    ELSE LET k == CHOOSE x \in S : TRUE
         IN  knowledge_base[k].confidence_score + SumConfidence(S \ {k})

\* _generate_system_insights: the insights from the last three entries of each
\* list, and from the first popular topic (top is NULL when there is none)
generate_system_insights(performance, satisfaction, top) ==
    (IF Len(performance) >= 3
     THEN IF Total(LastThree(performance)) > 3 * InsightSlowResponse
          THEN {"performance_degraded"}
          ELSE IF Total(LastThree(performance)) < 3 * InsightFastResponse
               THEN {"performance_excellent"} ELSE {}
     ELSE {})
    \cup
    (IF Len(satisfaction) >= 3
     THEN IF Total(LastThree(satisfaction)) > 3 * InsightHighRating
          THEN {"satisfaction_high"}
          ELSE IF Total(LastThree(satisfaction)) < 3 * InsightLowRating
               THEN {"satisfaction_low"} ELSE {}
     ELSE {})
    \cup
    (IF top = NULL THEN {}
     ELSE {"popular_topic"} \cup
          (IF SumConfidence(TopicItems(top)) < InsightLowConfidence * Cardinality(TopicItems(top))
           THEN {"low_confidence_topic"} ELSE {}))

\* _run_comprehensive_analysis: it reads the stores and writes none; its result
\* carries the insights. An error of a query is swallowed into an error result
run_comprehensive_analysis(w, ok) ==
    /\ Store(ok)
    /\ run[w].pc = "handler"
    /\ run[w].session_type = "comprehensive_analysis"
    /\ run' = [run EXCEPT ![w].pc = "finish",
                          ![w].result = IF ok THEN Result(NULL, {})
                                        ELSE Result("store_error", {})]
    /\ IF ok
       THEN \E top \in (IF TopTopics = {} THEN {NULL} ELSE TopTopics) :
               insights' = << generate_system_insights(performance_trend,
                                                       satisfaction_trend, top) >>
       ELSE UNCHANGED insights
    /\ UNCHANGED << feedback, learning_sessions, uuid, model_config, system_config,
                    knowledge_base, needs_review, req, tasks, job,
                    submitted, invoked, jobs_run >>
    /\ UNCHANGED << batch_vars, chat_vars, daily, system_alerts, trend_job, trend_runs,
                    reads, sweeps >>

\* a dispatch whose else branch returns a result without an error
run_unknown_type_NoError(w) ==
    /\ UNCHANGED faults
    /\ run[w].pc = "handler"
    /\ run[w].session_type \notin {"model_optimization", "knowledge_expansion",
                                   "comprehensive_analysis"}
    /\ run' = [run EXCEPT ![w].pc = "finish", ![w].result = Result(NULL, {})]
    /\ UNCHANGED << feedback, learning_sessions, uuid, model_config, system_config,
                    knowledge_base, needs_review, req, tasks, job,
                    submitted, invoked, jobs_run >>
    /\ UNCHANGED << batch_vars, chat_vars, analysis_vars >>

\* the else branch of the dispatch: any other session type
run_unknown_type(w) ==
    /\ UNCHANGED faults
    /\ run[w].pc = "handler"
    /\ run[w].session_type \notin {"model_optimization", "knowledge_expansion",
                                   "comprehensive_analysis"}
    /\ run' = [run EXCEPT ![w].pc = "finish",
                          ![w].result = Result("unknown_session_type", {})]
    /\ UNCHANGED << feedback, learning_sessions, uuid, model_config, system_config,
                    knowledge_base, needs_review, req, tasks, job,
                    submitted, invoked, jobs_run >>
    /\ UNCHANGED << batch_vars, chat_vars, analysis_vars >>

\* a run_learning_session that marks every result completed
FinalStatus_AlwaysCompleted(result) == IF result.null THEN "failed" ELSE "completed"

\* the status run_learning_session writes for a result
FinalStatus(result) == IF result.error = NULL THEN "completed" ELSE "failed"

\* a second UPDATE without its WHERE clause: every row takes the result
finish_run_NoWhere(w, ok) ==
    /\ Store(ok)
    /\ run[w].pc = "finish"
    /\ IF ok
       THEN /\ learning_sessions' =
                 [sid \in DOMAIN learning_sessions |->
                     [learning_sessions[sid] EXCEPT
                         !.status = FinalStatus(run[w].result),
                         !.output_data = run[w].result]]
            /\ run' = [run EXCEPT ![w] = IdleRun]
       ELSE /\ run' = [run EXCEPT ![w].pc = "except", ![w].error = "store_error"]
            /\ UNCHANGED learning_sessions
    /\ UNCHANGED << feedback, uuid, model_config, system_config, knowledge_base,
                    needs_review, req, tasks, job, submitted, invoked, jobs_run >>
    /\ UNCHANGED << batch_vars, chat_vars, analysis_vars >>

\* the second UPDATE (status, completed_at, output_data) and its commit
finish_run(w, ok) ==
    /\ Store(ok)
    /\ run[w].pc = "finish"
    /\ IF ok
       THEN /\ learning_sessions' =
                 IF run[w].session_id \in DOMAIN learning_sessions
                 THEN [learning_sessions EXCEPT
                         ![run[w].session_id].status = FinalStatus(run[w].result),
                         ![run[w].session_id].output_data = run[w].result]
                 ELSE learning_sessions
            /\ run' = [run EXCEPT ![w] = IdleRun]
       ELSE /\ run' = [run EXCEPT ![w].pc = "except", ![w].error = "store_error"]
            /\ UNCHANGED learning_sessions
    /\ UNCHANGED << feedback, uuid, model_config, system_config, knowledge_base,
                    needs_review, req, tasks, job, submitted, invoked, jobs_run >>
    /\ UNCHANGED << batch_vars, chat_vars, analysis_vars >>

\* an except clause whose own handler re-raises what the write of 'failed' raised
except_run_Reraise(w, ok) ==
    /\ UNCHANGED faults
    /\ run[w].pc = "except"
    /\ learning_sessions' =
         IF ok /\ run[w].session_id \in DOMAIN learning_sessions
         THEN [learning_sessions EXCEPT
                 ![run[w].session_id].status = "failed",
                 ![run[w].session_id].error_message = run[w].error]
         ELSE learning_sessions
    /\ run' = [run EXCEPT ![w] = IF ok THEN IdleRun
                                 ELSE [IdleRun EXCEPT !.error = "store_error"]]
    /\ UNCHANGED << feedback, uuid, model_config, system_config, knowledge_base,
                    needs_review, req, tasks, job, submitted, invoked, jobs_run >>
    /\ UNCHANGED << batch_vars, chat_vars, analysis_vars >>

\* the except clause: UPDATE status = 'failed', error_message = str(e); an error
\* of this write is swallowed (except: pass).  The write may fail whatever failed
\* before it, so its failure is not counted against MaxFaults.
except_run(w, ok) ==
    /\ UNCHANGED faults
    /\ run[w].pc = "except"
    /\ learning_sessions' =
         IF ok /\ run[w].session_id \in DOMAIN learning_sessions
         THEN [learning_sessions EXCEPT
                 ![run[w].session_id].status = "failed",
                 ![run[w].session_id].error_message = run[w].error]
         ELSE learning_sessions
    /\ run' = [run EXCEPT ![w] = IdleRun]
    /\ UNCHANGED << feedback, uuid, model_config, system_config, knowledge_base,
                    needs_review, req, tasks, job, submitted, invoked, jobs_run >>
    /\ UNCHANGED << batch_vars, chat_vars, analysis_vars >>

----------------------------------------------------------------------------
(* celery_tasks: the scheduled optimize_model_parameters job *)

\* _optimize_model_parameters_async, the statistics of the last 24 hours; an error
\* is raised to the task, which is retried later
job_stats(ok) ==
    /\ Store(ok)
    /\ job.pc = "idle"
    /\ jobs_run < MaxJobs
    /\ jobs_run' = jobs_run + 1
    /\ job' = IF ok
              THEN [pc |-> "adjust", avg_num |-> SumRatings(Recent1),
                    feedback_count |-> Cardinality(Recent1), adjusted |-> FALSE]
              ELSE IdleJob
    /\ UNCHANGED << feedback, learning_sessions, uuid, model_config, system_config,
                    knowledge_base, needs_review, req, tasks, run, submitted, invoked >>
    /\ UNCHANGED << batch_vars, chat_vars, analysis_vars >>

\* the temperature the job writes: computed from the literal 0.7, not from the
\* stored value; with no row the average defaults to 3.0
JobTemperature(sum, n, current) ==
    IF n > 0 /\ AvgBelow3(sum, n) /\ n >= MinFeedbackForTuning
    THEN Max(TemperatureMin, JobBaseTemperature - Step)
    ELSE IF n > 0 /\ AvgAbove4(sum, n) /\ n >= MinFeedbackForTuning
    THEN Min(TemperatureMax, JobBaseTemperature + Step)
    ELSE current

\* the UPDATE of system_config (when the statistics ask for one) and the first commit
job_adjust(ok) ==
    /\ Store(ok)
    /\ job.pc = "adjust"
    /\ IF ok
       THEN /\ system_config' =
                 [system_config EXCEPT !.response_temperature =
                     JobTemperature(job.avg_num, job.feedback_count, @)]
            /\ job' = [job EXCEPT !.pc = "record",
                                  !.adjusted = TuningMode(job.avg_num, job.feedback_count) # "none"]
       ELSE /\ job' = IdleJob
            /\ UNCHANGED system_config
    /\ UNCHANGED << feedback, learning_sessions, uuid, model_config,
                    knowledge_base, needs_review, req, tasks, run,
                    submitted, invoked, jobs_run >>
    /\ UNCHANGED << batch_vars, chat_vars, analysis_vars >>

\* the INSERT of the session the job records, already completed, with its output
job_record(ok) ==
    /\ Store(ok)
    /\ job.pc = "record"
    /\ uuid' = uuid + 1
    /\ learning_sessions' =
         IF ok
         THEN learning_sessions @@
              ((uuid + 1) :> SessionRow("model_optimization", "completed", NoMessage,
                                        Result(NULL, {}), NULL))
         ELSE learning_sessions
    /\ job' = IdleJob
    /\ UNCHANGED << feedback, model_config, system_config, knowledge_base,
                    needs_review, req, tasks, run, submitted, invoked, jobs_run >>
    /\ UNCHANGED << batch_vars, chat_vars, analysis_vars >>

----------------------------------------------------------------------------
(* celery_tasks: the scheduled analyze_feedback_batch task *)

\* SELECT ... FROM feedback WHERE processed = false
Unprocessed == { i \in DOMAIN feedback : ~ feedback[i].processed }

\* a BatchEligible that also derives knowledge from the comments of bad ratings
BatchEligible_AnyRating(i) ==
    /\ (feedback[i].rating >= 4 \/ feedback[i].rating <= 2)
    /\ feedback[i].comment # NULL
    /\ CommentLen(feedback[i].comment) > 50

\* the rows the loop derives a knowledge item from: rating >= 4 and a comment of
\* more than 50 characters; a row of rating <= 2 only adds to the counts of the result
BatchEligible(i) ==
    /\ feedback[i].rating >= 4
    /\ feedback[i].comment # NULL
    /\ CommentLen(feedback[i].comment) > 50

\* ORDER BY created_at DESC: the latest row first
RECURSIVE Descending(_)
Descending(S) ==
    IF S = {} THEN << >>
    ELSE LET i == CHOOSE x \in S : \A y \in S : y <= x
         IN  << i >> \o Descending(S \ {i})

\* the position of a run after the loop has passed the rows that need no statement
\* of the store: at the next add_knowledge_item, or at mark_feedback_processed
AfterSelect(ids, todo) ==
    [pc |-> IF todo = << >> THEN "mark" ELSE "add", ids |-> ids, todo |-> todo]

\* the task starts (by the beat schedule, or as the retry of a run that raised)
\* and selects the unprocessed rows; with none it returns at once
batch_select(b, ok) ==
    /\ Store(ok)
    /\ batch[b].pc = "idle"
    /\ FirstIdle(batch, Batches, b)
    /\ batch_runs < MaxBatchRuns
    /\ batch_runs' = batch_runs + 1
    /\ batch' = IF ok /\ Unprocessed # {}
                THEN [batch EXCEPT ![b] =
                        AfterSelect(Unprocessed,
                                    Descending({ i \in Unprocessed : BatchEligible(i) }))]
                ELSE batch
    /\ UNCHANGED << feedback, learning_sessions, uuid, model_config, system_config,
                    knowledge_base, needs_review, req, tasks, run, job,
                    submitted, invoked, jobs_run, performance_metrics >>
    /\ UNCHANGED << chat_vars, analysis_vars >>

\* add_knowledge_item for the next eligible row: insert and commit; when it raises,
\* the run raises and the task is left to its retry, the items committed so far stay
batch_add(b, ok) ==
    /\ Store(ok)
    /\ batch[b].pc = "add"
    /\ IF ok
       THEN /\ knowledge_base' =
                 Append(knowledge_base, KnowledgeRow("feedback_derived", "user_feedback", 8))
            /\ batch' = [batch EXCEPT ![b] = AfterSelect(batch[b].ids, Tail(batch[b].todo))]
       ELSE /\ batch' = [batch EXCEPT ![b] = IdleBatch]
            /\ UNCHANGED knowledge_base
    /\ UNCHANGED << feedback, learning_sessions, uuid, model_config, system_config,
                    needs_review, req, tasks, run, job,
                    submitted, invoked, jobs_run, performance_metrics, batch_runs >>
    /\ UNCHANGED << chat_vars, analysis_vars >>

\* a mark_feedback_processed that flips the flag of the rows it is given
MarkProcessed_Flip(ids) ==
    [i \in DOMAIN feedback |->
        IF i \in ids THEN [feedback[i] EXCEPT !.processed = ~ @] ELSE feedback[i]]

\* UPDATE feedback SET processed = true WHERE id IN (ids)
MarkProcessed(ids) ==
    [i \in DOMAIN feedback |->
        IF i \in ids THEN [feedback[i] EXCEPT !.processed = TRUE] ELSE feedback[i]]

\* FeedbackService.mark_feedback_processed and its commit; an error is rolled back
\* and raised
batch_mark(b, ok) ==
    /\ Store(ok)
    /\ batch[b].pc = "mark"
    /\ IF ok
       THEN /\ feedback' = MarkProcessed(batch[b].ids)
            /\ batch' = [batch EXCEPT ![b].pc = "metric"]
       ELSE /\ batch' = [batch EXCEPT ![b] = IdleBatch]
            /\ UNCHANGED feedback
    /\ UNCHANGED << learning_sessions, uuid, model_config, system_config,
                    knowledge_base, needs_review, req, tasks, run, job,
                    submitted, invoked, jobs_run, performance_metrics, batch_runs >>
    /\ UNCHANGED << chat_vars, analysis_vars >>

\* MetricsService.record_metric("feedback_analysis_processed", len(feedbacks)): an
\* error of the insert is rolled back and swallowed; the run returns its result
batch_metric(b, ok) ==
    /\ Store(ok)
    /\ batch[b].pc = "metric"
    /\ performance_metrics' = IF ok
                              THEN Append(performance_metrics, Cardinality(batch[b].ids))
                              ELSE performance_metrics
    /\ batch' = [batch EXCEPT ![b] = IdleBatch]
    /\ UNCHANGED << feedback, learning_sessions, uuid, model_config, system_config,
                    knowledge_base, needs_review, req, tasks, run, job,
                    submitted, invoked, jobs_run, batch_runs >>
    /\ UNCHANGED << chat_vars, analysis_vars >>

BatchNext ==
    \/ \E b \in Batches, ok \in BOOLEAN : batch_select(b, ok)
    \/ \E b \in Batches, ok \in BOOLEAN : batch_add(b, ok)
    \/ \E b \in Batches, ok \in BOOLEAN : batch_mark(b, ok)
    \/ \E b \in Batches, ok \in BOOLEAN : batch_metric(b, ok)

----------------------------------------------------------------------------

\* the feedback endpoint: save_feedback, then its background task
FeedbackNext ==
    \/ \E r \in Requests, m \in SubmitMessages,
          f \in SubmitInputs, ok \in BOOLEAN :
            save_feedback(r, m, f[1], f[2], ok)
    \/ \E r \in Requests, ok \in BOOLEAN : check_learning_trigger(r, ok)
    \/ \E r \in Requests, ok \in BOOLEAN : trigger_learning_session(r, ok)
    \/ \E r \in Requests, outcome \in Outcomes : process_feedback_for_learning(r, outcome)
    \/ \E r \in Requests, ok \in BOOLEAN : check_model_optimization_trigger(r, ok)
    \/ \E r \in Requests, ok \in BOOLEAN : create_optimization_session(r, ok)

\* the callers of run_learning_session
InvokeNext ==
    \/ \E w \in Workers, type \in SessionTypes : trigger_learning_background(w, type)
    \/ \E w \in Workers, sid \in DOMAIN learning_sessions, type \in SessionTypes :
            run_learning_session(w, sid, type)

\* the steps of run_learning_session
RunNext ==
    \/ \E w \in Workers : start_task(w)
    \/ \E w \in Workers, ok \in BOOLEAN : mark_running(w, ok)
    \/ \E w \in Workers, ok \in BOOLEAN : run_model_optimization_stats(w, ok)
    \/ \E w \in Workers, ok \in BOOLEAN : run_model_optimization(w, ok)
    \/ \E w \in Workers, ok \in BOOLEAN : run_knowledge_expansion(w, ok)
    \/ \E w \in Workers, ok \in BOOLEAN : run_comprehensive_analysis(w, ok)
    \/ \E w \in Workers : run_unknown_type(w)
    \/ \E w \in Workers, ok \in BOOLEAN : finish_run(w, ok)
    \/ \E w \in Workers, ok \in BOOLEAN : except_run(w, ok)

\* the scheduled job
JobNext ==
    \/ \E ok \in BOOLEAN : job_stats(ok)
    \/ \E ok \in BOOLEAN : job_adjust(ok)
    \/ \E ok \in BOOLEAN : job_record(ok)

\* the feedback analyses a caller may hand to the tuner
TuneInputs == { << 15, 10 >>, << 29, 10 >>, << 30, 10 >>, << 40, 10 >>, << 41, 10 >>,
                << 9, 9 >>, << 45, 9 >> }
NegativeRates == { 0, 30, 31 }

TuneNext ==
    \E a \in TuneInputs, rate \in NegativeRates : tune(a[1], a[2], rate)

----------------------------------------------------------------------------
(* The scheduled task analyze_performance_trends *)

\* the others of the state, which the trend analysis does not write
trend_rest == << feedback, learning_sessions, uuid, model_config, system_config,
                 knowledge_base, needs_review, req, tasks, run, job,
                 submitted, invoked, jobs_run, batch_vars, chat_vars, daily, insights,
                 reads, sweeps >>

\* the row record_metric inserts for an alert: metric_name system_alert, the
\* type of the metric, the label alert_type and the severity of the context
AlertRow(type, severity, recent) ==
    [metric_name |-> "system_alert", metric_type |-> "gauge", alert_type |-> type,
     severity |-> severity, recent_sum |-> recent]

\* a satisfaction test that also fires at a mean of exactly 3.0
SatisfactionDeclines_AtMost(series) ==
    Len(series) >= 3 /\ Total(LastThree(series)) <= 3 * AlertLowRating

SatisfactionDeclines(series) ==
    Len(series) >= 3 /\ Total(LastThree(series)) < 3 * AlertLowRating

PerformanceDegrades(series) ==
    Len(series) >= 3 /\ Total(LastThree(series)) > 3 * AlertSlowResponse

\* MetricsService.get_performance_trends(days=7): both series ORDER BY date, the
\* oldest day first; an error is swallowed and the task goes on without a series
get_performance_trends(ok) ==
    /\ Store(ok)
    /\ trend_job.pc = "idle"
    /\ trend_runs < MaxTrendRuns
    /\ trend_runs' = trend_runs + 1
    /\ trend_job' = IF ok
                    THEN [pc |-> "satisfaction",
                          user_satisfaction |-> daily.user_satisfaction,
                          response_time |-> daily.response_time]
                    ELSE [IdleTrend EXCEPT !.pc = "satisfaction"]
    /\ UNCHANGED << system_alerts, trend_rest >>

\* the satisfaction branch: with three days or more and a recent mean below 3.0,
\* record_metric inserts the alert; record_metric swallows its own error
alert_satisfaction(ok) ==
    /\ trend_job.pc = "satisfaction"
    /\ IF SatisfactionDeclines(trend_job.user_satisfaction)
       THEN /\ Store(ok)
            /\ system_alerts' =
                 IF ok
                 THEN Append(system_alerts,
                             AlertRow("satisfaction_decline", "high",
                                      Total(LastThree(trend_job.user_satisfaction))))
                 ELSE system_alerts
       ELSE /\ ok
            /\ UNCHANGED << system_alerts, faults >>
    /\ trend_job' = [trend_job EXCEPT !.pc = "response"]
    /\ UNCHANGED << trend_runs, trend_rest >>

\* the response-time branch: a recent mean above 5.0 seconds
alert_performance(ok) ==
    /\ trend_job.pc = "response"
    /\ IF PerformanceDegrades(trend_job.response_time)
       THEN /\ Store(ok)
            /\ system_alerts' =
                 IF ok
                 THEN Append(system_alerts,
                             AlertRow("performance_degradation", "medium",
                                      Total(LastThree(trend_job.response_time))))
                 ELSE system_alerts
       ELSE /\ ok
            /\ UNCHANGED << system_alerts, faults >>
    /\ trend_job' = IdleTrend
    /\ UNCHANGED << trend_runs, trend_rest >>

TrendNext ==
    \/ \E ok \in BOOLEAN : get_performance_trends(ok)
    \/ \E ok \in BOOLEAN : alert_satisfaction(ok)
    \/ \E ok \in BOOLEAN : alert_performance(ok)

----------------------------------------------------------------------------
(* KnowledgeService: ingestion, reads and the retention sweep *)

\* the others of the state, which KnowledgeService does not write
knowledge_rest == << feedback, learning_sessions, uuid, model_config, system_config,
                     needs_review, req, tasks, run, job, submitted, invoked, jobs_run,
                     batch_vars, chat_vars, daily, insights, system_alerts,
                     trend_job, trend_runs >>

\* add_knowledge_item called with a source and a confidence_score of its caller's
\* choice: insert and commit; an error is rolled back and raised
add_knowledge_item(src, conf, content, ok) ==
    /\ Store(ok)
    /\ Len(knowledge_base) < MaxItems
    /\ knowledge_base' =
          IF ok
          THEN Append(knowledge_base, KnowledgeItem("geral", src, conf, content, 0, NULL, "day"))
          ELSE knowledge_base
    /\ UNCHANGED << reads, sweeps, knowledge_rest >>

\* UPDATE knowledge_base SET usage_count = usage_count + 1, last_used_at = now
ReadItem(row) ==
    [row EXCEPT !.usage_count = @ + 1, !.last_used_at = "day"]

\* get_knowledge_item(k): a missing id returns None; otherwise the UPDATE and its
\* commit; an error returns None and nothing is committed
get_knowledge_item(k, ok) ==
    /\ Store(ok)
    /\ reads < MaxReads
    /\ reads' = reads + 1
    /\ knowledge_base' =
          IF ok /\ k \in DOMAIN knowledge_base
          THEN [knowledge_base EXCEPT ![k] = ReadItem(@)]
          ELSE knowledge_base
    /\ UNCHANGED << sweeps, knowledge_rest >>

\* the WHERE clause of cleanup_old_knowledge: not used since the cutoff, used less
\* than 5 times, confidence below 0.5, source other than admin_input
SweepEligible(row) ==
    /\ row.last_used_at = NULL \/ row.last_used_at = "stale"
    /\ row.usage_count < SweepMinUsage
    /\ row.confidence_score < SweepMaxConfidence
    /\ row.source # "admin_input"

KeptBySweep(row) == ~ SweepEligible(row)

\* cleanup_old_knowledge(days_threshold = 90): select, delete and commit; an error
\* is rolled back and swallowed
cleanup_old_knowledge(ok) ==
    /\ Store(ok)
    /\ sweeps < MaxSweeps
    /\ sweeps' = sweeps + 1
    /\ knowledge_base' = IF ok THEN SelectSeq(knowledge_base, KeptBySweep)
                        ELSE knowledge_base
    /\ UNCHANGED << reads, knowledge_rest >>

\* what the callers of add_knowledge_item may pass
IngestSources == {"api", "admin_input"}
IngestConfidences == {4, 6, 10}

KnowledgeNext ==
    \/ \E src \in IngestSources, conf \in IngestConfidences, ok \in BOOLEAN :
            add_knowledge_item(src, conf, "other", ok)
    \/ \E k \in 1..MaxItems, ok \in BOOLEAN : get_knowledge_item(k, ok)
    \/ \E ok \in BOOLEAN : cleanup_old_knowledge(ok)

----------------------------------------------------------------------------
(* Chat completion requests. Coroutines of one event loop interleave at their
   awaits only, so the statements between two awaits are one step. Manus is
   imported from app.agent; its run is taken as an asynchronous iteration that
   yields up to MaxSteps updates, advancing current_step and adding to the memory,
   and that may raise. Requests carry a user message. *)

\* the others of the state, which no chat request writes
chat_rest == << feedback, learning_sessions, uuid, model_config, system_config,
                knowledge_base, needs_review, req, tasks, run, job,
                submitted, invoked, jobs_run, faults, batch_vars,
                analysis_vars >>

\* leaving "async with agent_lock": the lock is released by the request that holds it
Release(c) ==
    [agent_lock EXCEPT ![chat[c].app] = IF @ = c THEN Free ELSE @]

\* POST /v1/chat/completions arrives at one of the two applications; what precedes
\* the lock (backend: the context search) touches neither agent nor lock
chat_completions(c, app, stream) ==
    /\ chat[c].pc = "idle"
    /\ FirstIdle(chat, Chats, c)
    /\ chat' = [chat EXCEPT ![c] = [pc |-> "lock", app |-> app, stream |-> stream,
                                    steps |-> 0]]
    /\ UNCHANGED << agent, agent_lock, chat_rest >>

\* "async with agent_lock" is entered, the agent is reset (memory emptied, state
\* IDLE, current_step 0) and the messages of the request are loaded; no await in
\* between. api/main.py then awaits the context search, AIService starts agent.run
reset_agent(c) ==
    /\ chat[c].pc = "lock"
    /\ agent_lock[chat[c].app] = Free
    /\ agent_lock' = [agent_lock EXCEPT ![chat[c].app] = c]
    /\ agent' = [agent EXCEPT ![chat[c].app] = [memory |-> {c}, current_step |-> 0]]
    /\ chat' = [chat EXCEPT ![c].pc = IF chat[c].app = "api" THEN "search" ELSE "run"]
    /\ UNCHANGED chat_rest

\* api/main.py: search_relevant_context returns (it swallows its errors); a
\* streaming request returns its StreamingResponse, which leaves the lock before
\* stream_chat_response has been iterated; any other request goes on to agent.run
search_relevant_context(c) ==
    /\ chat[c].pc = "search"
    /\ IF chat[c].stream
       THEN /\ chat' = [chat EXCEPT ![c].pc = "respond"]
            /\ agent_lock' = Release(c)
       ELSE /\ chat' = [chat EXCEPT ![c].pc = "run"]
            /\ UNCHANGED agent_lock
    /\ UNCHANGED << agent, chat_rest >>

\* api/main.py: the server iterates stream_chat_response, which starts agent.run
stream_chat_response(c) ==
    /\ chat[c].pc = "respond"
    /\ chat' = [chat EXCEPT ![c].pc = "run"]
    /\ UNCHANGED << agent, agent_lock, chat_rest >>

\* agent.run yields its next update, or raises: the exception leaves the lock and
\* ends the request
agent_run(c, ok) ==
    /\ chat[c].pc = "run"
    /\ IF ok
       THEN /\ chat[c].steps < MaxSteps
            /\ agent' = [agent EXCEPT ![chat[c].app] =
                            [memory |-> @.memory \cup {c},
                             current_step |-> @.current_step + 1]]
            /\ chat' = [chat EXCEPT ![c].steps = @ + 1]
            /\ UNCHANGED agent_lock
       ELSE /\ chat' = [chat EXCEPT ![c] = IdleChat]
            /\ agent_lock' = Release(c)
            /\ UNCHANGED agent
    /\ UNCHANGED chat_rest

\* agent.run is exhausted: the response (or the last chunk) is sent and the lock,
\* when the request still holds it, is released
finish_chat(c) ==
    /\ chat[c].pc = "run"
    /\ chat' = [chat EXCEPT ![c] = IdleChat]
    /\ agent_lock' = Release(c)
    /\ UNCHANGED << agent, chat_rest >>

\* a cleanup whose DELETE has no test of the status
SessionExpired_AnyStatus(row) == row.started_at = "stale"

\* the WHERE clause of the cleanup job's DELETE: started before the cutoff (90
\* days ago) and status completed or failed
SessionExpired(row) ==
    /\ row.started_at = "stale"
    /\ row.status \in {"completed", "failed"}

\* _cleanup_old_data_async: archive of conversations and clean-up of metrics (no
\* row of the model is that old), then the DELETE of old sessions and the commit;
\* an error is rolled back and raised to the task
cleanup_old_data(ok) ==
    /\ Store(ok)
    /\ learning_sessions' =
         IF ok
         THEN [sid \in { x \in DOMAIN learning_sessions :
                            ~ SessionExpired(learning_sessions[x]) } |->
                  learning_sessions[sid]]
         ELSE learning_sessions
    /\ UNCHANGED << feedback, uuid, model_config, system_config, knowledge_base,
                    needs_review, req, tasks, run, job, submitted, invoked, jobs_run >>
    /\ UNCHANGED << batch_vars, chat_vars, analysis_vars >>

\* AIService.health_check (GET /health of backend/main.py): it replaces the
\* messages of the agent by its test message, without asking for the lock
health_check ==
    /\ agent' = [agent EXCEPT !["backend"].memory = {"teste"}]
    /\ UNCHANGED << chat, agent_lock, chat_rest >>

ChatNext ==
    \/ \E c \in Chats, app \in Apps, stream \in BOOLEAN : chat_completions(c, app, stream)
    \/ \E c \in Chats : reset_agent(c)
    \/ \E c \in Chats : search_relevant_context(c)
    \/ \E c \in Chats : stream_chat_response(c)
    \/ \E c \in Chats, ok \in BOOLEAN : agent_run(c, ok)
    \/ \E c \in Chats : finish_chat(c)

Next == FeedbackNext \/ InvokeNext \/ RunNext \/ JobNext \/ TuneNext \/ BatchNext
        \/ ChatNext \/ TrendNext \/ KnowledgeNext \/ health_check
    \/ (\E ok \in BOOLEAN : cleanup_old_data(ok))

Spec == Init /\ [][Next]_vars

\* the feedback path: submissions, the sessions they create and the tasks that
\* run them
InitTrigger ==
    /\ feedback \in { << >>, M1Rows(feedback_threshold - 1, 3, NULL) }
    /\ learning_sessions = << >>
    /\ uuid = 0
    /\ knowledge_base = << >>
    /\ InitRest

NextTrigger ==
    \/ FeedbackNext
    \/ \E w \in Workers : start_task(w)
    \/ \E w \in Workers, ok \in BOOLEAN : mark_running(w, ok)
    \/ \E w \in Workers, ok \in BOOLEAN : run_model_optimization_stats(w, ok)
    \/ \E w \in Workers, ok \in BOOLEAN : run_model_optimization(w, ok)
    \/ \E w \in Workers, ok \in BOOLEAN : finish_run(w, ok)
    \/ \E w \in Workers, ok \in BOOLEAN : except_run(w, ok)

SpecTrigger == InitTrigger /\ [][NextTrigger]_vars

\* the learning sessions: feedback is stored, the third feedback about m1 has
\* created its two sessions, and sessions are run by their task, by the manual
\* trigger or by a caller; the scheduled job runs beside them
RECURSIVE Repeat(_, _)
Repeat(seq, n) == IF n = 0 THEN << >> ELSE seq \o Repeat(seq, n - 1)

LearnInputs ==
    { << r, a, f >> : r \in PreRatings, a \in Ages, f \in FeedbackInputs }

InitLearn ==
    /\ \/ /\ feedback = << >>
          /\ learning_sessions = << >>
          /\ uuid = 0
          /\ tasks = {}
          /\ knowledge_base = << >>
       \/ \E i \in LearnInputs :
          /\ feedback = PreTable(i[1], i[2]) \o M1Rows(feedback_threshold, i[3][1], i[3][2])
          /\ learning_sessions =
                (1 :> SessionRow("feedback_analysis", "pending", m1, NullOutput, NULL))
                @@ (2 :> SessionRow("model_optimization", "pending", m1, NullOutput, NULL))
          /\ uuid = 2
          /\ tasks = {2}
          /\ knowledge_base =
                IF i[3][1] >= 4
                THEN Repeat(PositiveItems(messages[m1].content_len, i[3][2]), feedback_threshold)
                ELSE << >>
    /\ model_config = [temperature |-> DefaultTemperature, top_p |-> DefaultTopP,
                       frequency_penalty |-> DefaultFrequencyPenalty]
    /\ system_config = [response_temperature |-> DefaultTemperature]
    /\ needs_review = {}
    /\ req = [r \in Requests |-> IdleReq]
    /\ run = [w \in Workers |-> IdleRun]
    /\ job = IdleJob
    /\ submitted = 0
    /\ invoked = 0
    /\ jobs_run = 0
    /\ faults = 0
    /\ InitBatchVars
    /\ InitChatVars
    /\ InitAnalysisVars

NextLearn == InvokeNext \/ RunNext \/ JobNext

SpecLearn == InitLearn /\ [][NextLearn]_vars

\* the tuning paths: calls of the tuner with any analysis, and the scheduled job
InitTune ==
    /\ feedback \in {<< >>} \cup
          { PreTable(i[1], i[2]) \o M1Rows(feedback_threshold, i[3][1], i[3][2]) :
              i \in LearnInputs }
    /\ learning_sessions = << >>
    /\ uuid = 0
    /\ knowledge_base = << >>
    /\ InitRest

NextTune == TuneNext \/ JobNext

SpecTune == InitTune /\ [][NextTune]_vars

\* the feedback path when every statement of the store succeeds and the event loop
\* runs every request, background task and created task that is ready
FeedbackStep(r) ==
    \/ \E m \in SubmitMessages, f \in SubmitInputs :
            save_feedback(r, m, f[1], f[2], TRUE)
    \/ check_learning_trigger(r, TRUE)
    \/ trigger_learning_session(r, TRUE)
    \/ process_feedback_for_learning(r, "ok")
    \/ check_model_optimization_trigger(r, TRUE)
    \/ create_optimization_session(r, TRUE)

TaskStep(w) ==
    \/ start_task(w)
    \/ mark_running(w, TRUE)
    \/ run_model_optimization_stats(w, TRUE)
    \/ run_model_optimization(w, TRUE)
    \/ finish_run(w, TRUE)

NextFair ==
    \/ \E r \in Requests : FeedbackStep(r)
    \/ \E w \in Workers : TaskStep(w)

SpecFair ==
    /\ InitTrigger
    /\ [][NextFair]_vars
    /\ \A r \in Requests : WF_vars(FeedbackStep(r))
    /\ \A w \in Workers : WF_vars(TaskStep(w))

\* the manual trigger alone: POST /api/admin/trigger-learning with any session
\* type, its background task run to the end, every statement of the store succeeding
ManualStep(w) ==
    \/ \E type \in SessionTypes : trigger_learning_background(w, type)
    \/ mark_running(w, TRUE)
    \/ run_model_optimization_stats(w, TRUE)
    \/ run_model_optimization(w, TRUE)
    \/ run_knowledge_expansion(w, TRUE)
    \/ run_comprehensive_analysis(w, TRUE)
    \/ run_unknown_type(w)
    \/ finish_run(w, TRUE)

NextManual == \E w \in Workers : ManualStep(w)

SpecManual == InitTune /\ [][NextManual]_vars

\* the feedback a user may have sent before the batch analysis runs
BatchInputs == { <<5, "detailed_praise">>, <<4, "great_answer_long">>,
                 <<2, "detailed_praise">>, <<1, NULL>> }

\* the feedback path beside the batch analysis: feedback is stored by requests, or
\* is already there, and the scheduled task analyses what is unprocessed
InitBatch ==
    /\ feedback \in
          {<< >>} \cup
          { << FeedbackRow(m1, f[1], f[2], "day"),
               FeedbackRow(m1, 5, "detailed_praise", "day") >> : f \in BatchInputs }
    /\ learning_sessions = << >>
    /\ uuid = 0
    /\ knowledge_base = << >>
    /\ InitRest

\* the feedback a request may carry while the batch analysis runs
BesideInputs == { <<5, "detailed_praise">>, <<2, "detailed_praise">> }

\* feedback requests beside the batch analysis, one at a time: the row a request
\* stores, and its background task up to the end of the extraction
FeedbackBeside ==
    \/ \E f \in BesideInputs, ok \in BOOLEAN :
            save_feedback("r1", OtherMessage(1), f[1], f[2], ok)
    \/ \E ok \in BOOLEAN : check_learning_trigger("r1", ok)
    \/ \E outcome \in Outcomes : process_feedback_for_learning("r1", outcome)
    \/ \E ok \in BOOLEAN : check_model_optimization_trigger("r1", ok)

NextBatch == BatchNext \/ FeedbackBeside

SpecBatch == InitBatch /\ [][NextBatch]_vars

\* the rows whose content contains the user message of the chat requests:
\* content ILIKE %query%, at most 3 of them
Relevant ==
    { k \in DOMAIN knowledge_base : knowledge_base[k].content = "relevant" }

\* the chat requests of both applications, beside a store they do not write:
\* empty, or with an item the context search returns
InitChat ==
    /\ feedback = << >>
    /\ learning_sessions = << >>
    /\ uuid = 0
    /\ knowledge_base \in { << >>,
                            << KnowledgeItem("geral", "api", 10, "relevant", 0, NULL, "day") >> }
    /\ InitRest

SpecChat == InitChat /\ [][ChatNext]_vars

\* a stored model_optimization session that is run late: the feedback that
\* created it, and the feedback about other messages, may have left the 7-day window
LateInputs ==
    FeedbackInputs \cup { <<1, "muito longo">>, <<2, "complexo">>, <<2, "vago">> }

InitLate ==
    /\ \E r \in PreRatings, a \in Ages, f \in LateInputs, g \in LateInputs, b \in Ages :
          feedback = PreTable(r, a) \o
                     [i \in 1..feedback_threshold |->
                         IF i = 1 THEN FeedbackRow(m1, f[1], f[2], b)
                                  ELSE FeedbackRow(m1, g[1], g[2], b)]
    /\ learning_sessions =
          (1 :> SessionRow("model_optimization", "pending", m1, NullOutput, NULL))
    /\ uuid = 1
    /\ knowledge_base = << >>
    /\ InitRest

NextLate ==
    \/ \E w \in Workers : run_learning_session(w, 1, "model_optimization")
    \/ \E w \in Workers, ok \in BOOLEAN : mark_running(w, ok)
    \/ \E w \in Workers, ok \in BOOLEAN : run_model_optimization_stats(w, ok)
    \/ \E w \in Workers, ok \in BOOLEAN : run_model_optimization(w, ok)
    \/ \E w \in Workers, ok \in BOOLEAN : finish_run(w, ok)
    \/ \E w \in Workers, ok \in BOOLEAN : except_run(w, ok)

SpecLate == InitLate /\ [][NextLate]_vars

\* the daily cleanup job beside runs of stored sessions: two stored sessions of
\* any status, started today or more than 90 days ago
StoredSessions ==
    { [SessionRow("feedback_analysis", st, m1, NullOutput, NULL)
          EXCEPT !.started_at = age] :
        st \in {"pending", "running", "completed", "failed"}, age \in {"day", "stale"} }

InitCleanup ==
    /\ feedback = << >>
    /\ \E a \in StoredSessions, b \in StoredSessions :
          learning_sessions = (1 :> a) @@ (2 :> b)
    /\ uuid = 2
    /\ knowledge_base = << >>
    /\ InitRest

NextCleanup ==
    \/ \E ok \in BOOLEAN : cleanup_old_data(ok)
    \/ \E w \in Workers, sid \in DOMAIN learning_sessions :
            run_learning_session(w, sid, "feedback_analysis")
    \/ \E w \in Workers, ok \in BOOLEAN : mark_running(w, ok)
    \/ \E w \in Workers : run_unknown_type(w)
    \/ \E w \in Workers, ok \in BOOLEAN : finish_run(w, ok)
    \/ \E w \in Workers, ok \in BOOLEAN : except_run(w, ok)

SpecCleanup == InitCleanup /\ [][NextCleanup]_vars

\* the chat requests with the health endpoint called beside them
NextHealth == ChatNext \/ health_check

SpecHealth == InitChat /\ [][NextHealth]_vars

\* the daily averages the store may hold, in tenths, oldest day first
ResponseTimes == {10, 30, 90}
DayRatings == {10, 30, 50}
Series(values) == UNION { [1..n -> values] : n \in 0..MaxDays }
SampleTimes == { << >>, << 90, 90 >>, << 30, 30, 30 >>, << 90, 90, 90 >>,
                 << 90, 10, 10, 10 >> }
SampleRatings == { << >>, << 10, 10 >>, << 30, 30, 30 >>, << 10, 10, 10 >>,
                   << 10, 50, 50, 50 >> }
DailyInputs ==
    { [response_time |-> s, user_satisfaction |-> t] :
        s \in Series(ResponseTimes), t \in SampleRatings }
    \cup
    { [response_time |-> s, user_satisfaction |-> t] :
        s \in SampleTimes, t \in Series(DayRatings) }

\* the analyses of trends: a comprehensive_analysis session started by the manual
\* trigger, and the scheduled trend analysis, over any of the daily series
InitAnalysis ==
    /\ feedback = << >>
    /\ learning_sessions = << >>
    /\ uuid = 0
    /\ tasks = {}
    /\ knowledge_base = << >>
    /\ model_config = [temperature |-> DefaultTemperature, top_p |-> DefaultTopP,
                       frequency_penalty |-> DefaultFrequencyPenalty]
    /\ system_config = [response_temperature |-> DefaultTemperature]
    /\ needs_review = {}
    /\ req = [r \in Requests |-> IdleReq]
    /\ run = [w \in Workers |-> IdleRun]
    /\ job = IdleJob
    /\ submitted = 0
    /\ invoked = 0
    /\ jobs_run = 0
    /\ faults = 0
    /\ InitBatchVars
    /\ InitChatVars
    /\ daily \in DailyInputs
    /\ insights = << >>
    /\ system_alerts = << >>
    /\ trend_job = IdleTrend
    /\ trend_runs = 0
    /\ reads = 0
    /\ sweeps = 0

NextAnalysis ==
    \/ \E w \in Workers : trigger_learning_background(w, "comprehensive_analysis")
    \/ \E w \in Workers, ok \in BOOLEAN : mark_running(w, ok)
    \/ \E w \in Workers, ok \in BOOLEAN : run_comprehensive_analysis(w, ok)
    \/ \E w \in Workers, ok \in BOOLEAN : finish_run(w, ok)
    \/ \E w \in Workers, ok \in BOOLEAN : except_run(w, ok)
    \/ TrendNext

SpecAnalysis == InitAnalysis /\ [][NextAnalysis]_vars

\* the rows the knowledge base may hold when a sweep runs: ingested with any
\* confidence and source, long ago or today, never read or read up to today
\* or up to before the cutoff
StoredItems ==
    { KnowledgeItem("geral", src, conf, "other", u[1], u[2], created) :
        src \in IngestSources, conf \in {4, 6},
        u \in { << 0, NULL >>, << 4, "stale" >>, << 10, "stale" >>, << 1, "day" >> },
        created \in {"stale"} }
    \cup
    { KnowledgeItem("geral", "api", conf, "other", u[1], u[2], "day") :
        conf \in {4, 6}, u \in { << 0, NULL >>, << 1, "day" >> } }

\* the knowledge base under ingestion, reads and retention sweeps
InitKnowledge ==
    /\ feedback = << >>
    /\ learning_sessions = << >>
    /\ uuid = 0
    /\ knowledge_base \in {<< >>} \cup { << i >> : i \in StoredItems }
                         \cup { << i, j >> : i \in StoredItems, j \in StoredItems }
    /\ InitRest

SpecKnowledge == InitKnowledge /\ [][KnowledgeNext]_vars

----------------------------------------------------------------------------
(* Properties *)

Open == {"pending", "running"}
Terminal == {"completed", "failed"}

OpenSessions(m) ==
    { sid \in DOMAIN learning_sessions :
        /\ learning_sessions[sid].message_id = m
        /\ learning_sessions[sid].status \in Open }

\* C1: a feedback trigger creates no LearningSession for a message while an
\* earlier session for that message is still pending or running
C1_NoSessionWhileOneIsOpen ==
    [][ \A sid \in DOMAIN learning_sessions' \ DOMAIN learning_sessions :
            OpenSessions(learning_sessions'[sid].message_id) = {} ]_vars

\* C2: no reachable state holds two pending/running LearningSessions that
\* reference the same message
C2_AtMostOneOpenSession ==
    \A m \in DOMAIN messages : Cardinality(OpenSessions(m)) <= 1

\* C3: the status of a LearningSession only moves pending -> running ->
\* {completed, failed}, and a completed or failed session keeps its status,
\* output_data and error_message
C3_ForwardOnly ==
    [][ \A sid \in DOMAIN learning_sessions :
            LET old == learning_sessions[sid]
                new == learning_sessions'[sid]
            IN  /\ sid \in DOMAIN learning_sessions'
                /\ \/ new.status = old.status
                   \/ old.status = "pending" /\ new.status = "running"
                   \/ old.status = "running" /\ new.status \in Terminal
                /\ old.status \in Terminal =>
                      /\ new.output_data = old.output_data
                      /\ new.error_message = old.error_message ]_vars

\* C4: of two concurrent invocations of run_learning_session with the same
\* session id, at most one gets past the entry to the type-specific handler
InHandler == {"handler", "optimize", "finish"}

C4_OneHandlerPerSession ==
    \A w1, w2 \in Workers :
        /\ w1 # w2
        /\ run[w1].pc \in InHandler
        /\ run[w2].pc \in InHandler
        => run[w1].session_id # run[w2].session_id

\* C5: a completed LearningSession has an output_data, and it is a result
\* without an error marker
C5_CompletedHasOutput ==
    \A sid \in DOMAIN learning_sessions :
        learning_sessions[sid].status = "completed" =>
            /\ ~ learning_sessions[sid].output_data.null
            /\ learning_sessions[sid].output_data.error = NULL

\* a session completed by run_learning_session and one recorded by the job
C5_Witness ==
    /\ \E sid \in DOMAIN learning_sessions :
          /\ learning_sessions[sid].status = "completed"
          /\ learning_sessions[sid].message_id = m1
          /\ "conservative_tuning" \in learning_sessions[sid].output_data.optimizations_applied
    /\ \E sid \in DOMAIN learning_sessions :
          /\ learning_sessions[sid].status = "completed"
          /\ learning_sessions[sid].message_id = NoMessage

\* C6: a failed LearningSession has an error_message
C6_FailedHasErrorMessage ==
    \A sid \in DOMAIN learning_sessions :
        learning_sessions[sid].status = "failed" =>
            learning_sessions[sid].error_message # NULL

\* C7: output_data is set if and only if the session is completed or failed
C7_OutputIffTerminal ==
    \A sid \in DOMAIN learning_sessions :
        (~ learning_sessions[sid].output_data.null)
            <=> learning_sessions[sid].status \in Terminal

\* C8: the configuration stays within 0.3 <= temperature <= 0.9, top_p >= 0.7,
\* frequency_penalty <= 1.0, after any sequence of tuning operations
C8_ConfigWithinBounds ==
    /\ 3 <= model_config.temperature /\ model_config.temperature <= 9
    /\ model_config.top_p >= 7
    /\ model_config.frequency_penalty <= 10
    /\ 3 <= system_config.response_temperature
    /\ system_config.response_temperature <= 9

\* both clamps of the tuner bind, and the job has adjusted its temperature
C8_Witness ==
    /\ model_config.temperature = 3
    /\ model_config.top_p = 7
    /\ model_config.frequency_penalty = 10
    /\ system_config.response_temperature # 7

\* C9: on both tuning paths a conservative adjustment sets the temperature to
\* max(0.3, current - 0.1) and a creative one to min(0.9, current + 0.1), current
\* being the configured temperature just before
Adjusted(mode, current) ==
    CASE mode = "conservative" -> IF current - 1 >= 3 THEN current - 1 ELSE 3
      [] mode = "creative" -> IF current + 1 <= 9 THEN current + 1 ELSE 9
      [] OTHER -> current

ModeOf(sum, n) ==
    IF n >= 10 /\ sum < 3 * n THEN "conservative"
    ELSE IF n >= 10 /\ sum > 4 * n THEN "creative"
    ELSE "none"

C11_TightenOnNegativeRate ==
    [][ \A w \in Workers :
            ( /\ run[w].pc = "optimize" /\ run'[w].pc = "finish"
              /\ ModeOf(run[w].avg_num, run[w].total_feedback) # "none" ) =>
                IF 10 * run[w].negative_feedback > 3 * run[w].total_feedback
                THEN /\ model_config'.top_p =
                          (IF model_config.top_p - 1 >= 7 THEN model_config.top_p - 1 ELSE 7)
                     /\ model_config'.frequency_penalty =
                          (IF model_config.frequency_penalty + 1 <= 10
                           THEN model_config.frequency_penalty + 1 ELSE 10)
                ELSE /\ model_config'.top_p = model_config.top_p
                     /\ model_config'.frequency_penalty = model_config.frequency_penalty
      ]_vars

\* C12: run_learning_session never raises to its caller: a failed store write of
\* the try block goes to the except clause, the except clause attempts the write of
\* 'failed' once, and whether that write succeeds or fails the invocation returns
C12_NeverPropagates ==
    [][ \A w \in Workers :
            /\ run'[w].pc = "idle" => run'[w].error = NULL
            /\ (run[w].pc \in {"begin", "finish"} /\ faults' > faults /\ run'[w] # run[w])
                  => run'[w].pc = "except"
            /\ (run[w].pc = "except" /\ run'[w] # run[w]) => run'[w].pc = "idle"
      ]_vars

\* the first UPDATE of the task of session 2 failed and so did the write of 'failed':
\* the invocation has returned and the session is still pending
C12_Witness ==
    /\ faults > 0
    /\ tasks = {}
    /\ \A w \in Workers : run[w] = IdleRun
    /\ \E sid \in DOMAIN learning_sessions :
          /\ learning_sessions[sid].session_type = "model_optimization"
          /\ learning_sessions[sid].status = "pending"

\* C13: every LearningSession a feedback trigger creates in status pending is
\* eventually completed or failed, when store operations succeed and tasks are
\* run fairly
SessionIds == 1..(2 * MaxSubmit)

C14_ManualSessionStored ==
    [][ \A w \in Workers :
            (run[w].pc = "finish" /\ run'[w].pc = "idle") =>
                /\ run[w].session_id \in DOMAIN learning_sessions'
                /\ learning_sessions'[run[w].session_id].status \in Terminal ]_vars

\* C15: processing a feedback with rating >= 4 adds exactly one user-insights item
\* (confidence 0.8) when its comment is longer than 20 characters, after the
\* positive-responses item (confidence 0.9) that is added exactly when the message
\* content is longer than 100 characters
ExpectedItems(content_len, comment_len) ==
    (IF content_len > 100
     THEN << [category |-> "respostas_positivas", source |-> "feedback_positivo",
              confidence_score |-> 9, content |-> "other",
              usage_count |-> 0, last_used_at |-> NULL, created_at |-> "day"] >>
     ELSE << >>)
    \o
    (IF comment_len > 20
     THEN << [category |-> "insights_usuarios", source |-> "comentario_positivo",
              confidence_score |-> 8, content |-> "other",
              usage_count |-> 0, last_used_at |-> NULL, created_at |-> "day"] >>
     ELSE << >>)

Processed(r) == req[r].pc = "background" /\ req'[r].pc # "background"

C16_NegativeAddsNoKnowledge ==
    [][ /\ \A r \in Requests :
              (Processed(r) /\ req[r].rating <= 2) => knowledge_base' = knowledge_base
        /\ \A b \in Batches :
              (batch'[b] # batch[b] /\ knowledge_base' # knowledge_base) =>
                  /\ batch[b].pc = "add"
                  /\ feedback[Head(batch[b].todo)].rating > 2
        /\ \A b \in Batches :
              (batch'[b] # batch[b] /\ \A i \in batch[b].ids : feedback[i].rating <= 2)
                  => knowledge_base' = knowledge_base ]_vars

\* a feedback of rating 2 with a long comment has been through the batch analysis,
\* and another through process_feedback_for_learning
C16_Witness ==
    /\ \E i \in DOMAIN feedback :
          /\ feedback[i].rating <= 2
          /\ feedback[i].comment = "detailed_praise"
          /\ feedback[i].processed
    /\ req["r1"].pc = "optimization_trigger"
    /\ req["r1"].rating <= 2

\* C17: no operation changes a field of a stored Feedback other than processed,
\* processed only changes from false to true, and no Feedback row is deleted
C17_FeedbackImmutable ==
    [][ /\ Len(feedback') >= Len(feedback)
        /\ \A i \in DOMAIN feedback :
              /\ feedback'[i] = [feedback[i] EXCEPT !.processed = feedback'[i].processed]
              /\ feedback[i].processed => feedback'[i].processed ]_vars

\* two runs of the batch analysis have marked the same rows, and a row stored
\* since is unprocessed
C17_Witness ==
    /\ Len(performance_metrics) = 2
    /\ performance_metrics[1] = performance_metrics[2]
    /\ Len(feedback) = 3
    /\ feedback[1].processed /\ feedback[2].processed /\ ~ feedback[3].processed

\* C18: across the runs of the batch analysis, each Feedback row yields at most one
\* derived KnowledgeItem and is counted as processed at most once
DerivedItems == { k \in DOMAIN knowledge_base : knowledge_base[k].category = "feedback_derived" }

RECURSIVE SumOf(_)
SumOf(seq) == IF seq = << >> THEN 0 ELSE Head(seq) + SumOf(Tail(seq))

C19_RerunChangesNothing ==
    [][ \A w \in Workers :
            ( /\ run[w].pc = "optimize" /\ run'[w].pc = "finish"
              /\ run[w].session_id \in DOMAIN learning_sessions
              /\ learning_sessions[run[w].session_id].output_data.optimizations_applied
                    \cap {"conservative_tuning", "creative_tuning"} # {}
              /\ feedback' = feedback )
            => /\ model_config' = model_config
               /\ knowledge_base' = knowledge_base ]_vars

\* the requests that are between the reset of an application's agent and the end
\* of their agent.run
InAgent(app) ==
    { c \in Chats : chat[c].app = app /\ chat[c].pc \in {"search", "run"} }

\* C20: at most one generation request uses an application's agent at any time:
\* the reset, message loading and run of one request never overlap with those of
\* another, streaming or not, at either entry point
C20_OneGenerationAtATime ==
    \A app \in Apps : Cardinality(InAgent(app)) <= 1

\* the mean of the three most recent days of a series kept oldest day first is
\* above (below) a threshold given in tenths
RecentAbove(series, limit) ==
    Total(SubSeq(series, Len(series) - 2, Len(series))) > 3 * limit
RecentBelow(series, limit) ==
    Total(SubSeq(series, Len(series) - 2, Len(series))) < 3 * limit

\* C21: whenever at least three days exist, a comprehensive analysis gives the
\* performance-degraded insight exactly when the mean response time of the three
\* most recent days is above 3.0, and the satisfaction-low insight exactly when
\* the mean rating of the three most recent days is below 3.0
C21_InsightsFromMostRecentDays ==
    [][ \A w \in Workers :
          (run[w].pc = "handler" /\ run'[w].pc = "finish" /\ insights' # insights)
          => /\ Len(daily.response_time) >= 3
                => ("performance_degraded" \in insights'[1]
                      <=> RecentAbove(daily.response_time, InsightSlowResponse))
             /\ Len(daily.user_satisfaction) >= 3
                => ("satisfaction_low" \in insights'[1]
                      <=> RecentBelow(daily.user_satisfaction, InsightLowRating)) ]_vars

\* the alerts of one type among the system_alert rows
AlertsOf(type) ==
    { i \in DOMAIN system_alerts : system_alerts[i].alert_type = type }

\* the trend analysis has run to its end
TrendDone == trend_runs > 0 /\ trend_job.pc = "idle"

SweepStep == sweeps' = sweeps + 1 /\ faults' = faults

\* C23: a retention sweep deletes every item with confidence_score 0.6,
\* usage_count 0, last_used_at null, age above 90 days and a source other than
\* admin_input
C23_SweepDeletesStaleItem ==
    [][ SweepStep =>
          \A k \in DOMAIN knowledge_base' :
             ~ ( /\ knowledge_base'[k].confidence_score = 6
                 /\ knowledge_base'[k].usage_count = 0
                 /\ knowledge_base'[k].last_used_at = NULL
                 /\ knowledge_base'[k].created_at = "stale"
                 /\ knowledge_base'[k].source # "admin_input" ) ]_vars

\* the rows the claim protects: used 5 times or more, from admin_input, used
\* within the threshold period, or created within it
ProtectedItem(row) ==
    \/ row.usage_count >= 5
    \/ row.source = "admin_input"
    \/ row.last_used_at = "day"
    \/ row.created_at = "day"

SearchStep(c) ==
    \/ chat[c].pc = "search" /\ chat'[c].pc # "search"
    \/ chat[c].pc = "idle" /\ chat'[c].pc = "lock" /\ chat'[c].app = "backend"

\* C25: every read of a KnowledgeItem increments its usage_count by exactly one;
\* here for every item search_relevant_context returns
C25_SearchCountsUsage ==
    [][ \A c \in Chats :
          SearchStep(c) =>
             \A k \in Relevant :
                /\ k \in DOMAIN knowledge_base'
                /\ knowledge_base'[k].usage_count = knowledge_base[k].usage_count + 1 ]_vars

\* C26: a failure of the trigger evaluation or of the session creation, after
\* the feedback row was committed, neither takes the row back nor fails the
\* request: save_feedback goes on to return the id of the stored row
C26_TriggerFailureKeepsFeedback ==
    [][ \A r \in Requests :
          (req[r].pc \in {"check_trigger", "trigger_session"} /\ req'[r] # req[r])
          => /\ feedback' = feedback
             /\ req'[r].pc \in {"trigger_session", "background"}
             /\ req'[r].feedback_id = req[r].feedback_id
             /\ req[r].feedback_id \in DOMAIN feedback'
             /\ feedback'[req[r].feedback_id].message_id = req[r].message_id
             /\ feedback'[req[r].feedback_id].rating = req[r].rating ]_vars

\* the threshold was reached, the session creation raised, and save_feedback has
\* returned with the row stored
C26_Witness ==
    \E r \in Requests :
       /\ req[r].pc = "background"
       /\ req[r].count >= feedback_threshold
       /\ faults = 1
       /\ DOMAIN learning_sessions = {}
       /\ req[r].feedback_id \in DOMAIN feedback

\* C27: save_feedback stores a row only for a message that exists and otherwise
\* raises, leaving the Feedback and LearningSession stores as they were; every
\* stored Feedback references an existing message
C27_FeedbackReferencesMessage ==
    /\ [](\A i \in DOMAIN feedback : feedback[i].message_id \in DOMAIN messages)
    /\ [][ submitted' = submitted + 1 =>
             /\ learning_sessions' = learning_sessions
             /\ \/ feedback' = feedback /\ req' = req
                \/ /\ feedback' = Append(feedback, feedback'[Len(feedback')])
                   /\ feedback'[Len(feedback')].message_id \in DOMAIN messages ]_vars

\* a submission for a missing message was refused: no statement of the store
\* raised, yet nothing was stored and no request is under way
C27_Witness ==
    /\ submitted = 1
    /\ faults = 0
    /\ feedback = << >>
    /\ learning_sessions = << >>
    /\ \A r \in Requests : req[r].pc = "idle"

\* the sessions a step creates
NewSessions == DOMAIN learning_sessions' \ DOMAIN learning_sessions

\* request r ends the trigger of save_feedback, or the optimization trigger of
\* its background task
TriggerEnds(r) ==
    \/ req[r].pc \in {"check_trigger", "trigger_session"} /\ req'[r].pc = "background"
    \/ req[r].pc \in {"optimization_trigger", "create_session"} /\ req'[r].pc = "idle"

\* no step creates a session for a message with fewer than feedback_threshold rows
BelowThresholdNoSession ==
    \A sid \in NewSessions :
        FeedbackCount(learning_sessions'[sid].message_id) >= feedback_threshold

C29_HealthCheckKeepsMemory ==
    \A c \in Chats :
        (chat[c].app = "backend" /\ chat[c].pc = "run" /\ agent_lock["backend"] = c)
        => c \in agent["backend"].memory

UnknownType(w) ==
    /\ run[w].pc # "idle"
    /\ run[w].session_type \notin {"model_optimization", "knowledge_expansion",
                                   "comprehensive_analysis"}

\* the step that ends the invocation of slot w for a stored session
EndsStored(w) ==
    /\ run[w].pc # "idle"
    /\ run'[w].pc = "idle"
    /\ run[w].session_id \in DOMAIN learning_sessions

\* no step of such an invocation runs a handler or changes ModelConfig or the
\* knowledge base
UnknownTypeFrame ==
    \A w \in Workers :
        (UnknownType(w) /\ run'[w] # run[w]) =>
            /\ model_config' = model_config
            /\ knowledge_base' = knowledge_base
            /\ run'[w].pc \in {"handler", "finish", "except", "idle"}
            /\ run'[w].pc = "finish" =>
                   run'[w].result = Result("unknown_session_type", {})

PatternTagsOf(applied) == applied \ {"conservative_tuning", "creative_tuning"}

\* the step in which the handler of slot w returns a result without an error
OptimizationReturns(w) ==
    /\ run[w].pc = "optimize"
    /\ run'[w].pc = "finish"
    /\ run'[w].result.error = NULL

\* C32: in a model_optimization session with more than 5 negative rows every
\* pattern detected in the negative comments adds a tag of its own to
\* optimizations_applied; with 5 or fewer negative rows no pattern tag is added
C32_EveryPatternTagged ==
    [][ \A w \in Workers :
            OptimizationReturns(w) =>
                LET tags == PatternTagsOf(run'[w].result.optimizations_applied)
                IN  IF run[w].negative_feedback > 5
                    THEN Cardinality(tags) = Cardinality(NegativePatterns)
                    ELSE tags = {} ]_vars

\* C33: a step of run_learning_session for session id S leaves the status,
\* output_data and error_message of every other LearningSession as they were,
\* and adds or removes no session, whether S completes or fails
C33_OtherSessionsUntouched ==
    [][ \A w \in Workers :
            (run[w].pc # "idle" /\ run'[w] # run[w]) =>
                /\ DOMAIN learning_sessions' = DOMAIN learning_sessions
                /\ \A sid \in DOMAIN learning_sessions \ {run[w].session_id} :
                       /\ learning_sessions'[sid].status = learning_sessions[sid].status
                       /\ learning_sessions'[sid].output_data =
                              learning_sessions[sid].output_data
                       /\ learning_sessions'[sid].error_message =
                              learning_sessions[sid].error_message ]_vars

\* one stored session has been run to the end and is completed with its output,
\* while another stored session is still pending without output
C33_Witness ==
    \E s \in DOMAIN learning_sessions, t \in DOMAIN learning_sessions :
        /\ s # t
        /\ learning_sessions[s].status = "completed"
        /\ ~ learning_sessions[s].output_data.null
        /\ learning_sessions[t].status = "pending"
        /\ learning_sessions[t].output_data.null
        /\ \A w \in Workers : run[w].pc = "idle"

\* C34: the daily cleanup job deletes no session that is pending or running, and
\* no completed or failed session started less than 90 days ago: a session that
\* a step removes was completed or failed and started more than 90 days ago
C34_CleanupDeletesOnlyOldTerminal ==
    [][ \A sid \in DOMAIN learning_sessions :
            sid \notin DOMAIN learning_sessions' =>
                /\ learning_sessions[sid].status \in {"completed", "failed"}
                /\ learning_sessions[sid].started_at = "stale" ]_vars

\* the job has deleted one session, and has kept a session started more than 90
\* days ago that is pending or running
C34_Witness ==
    /\ Cardinality(DOMAIN learning_sessions) = 1
    /\ \E sid \in DOMAIN learning_sessions :
          /\ learning_sessions[sid].status \in {"pending", "running"}
          /\ learning_sessions[sid].started_at = "stale"

====
